---------------------------- MODULE Spec2Model ----------------------------
(***************************************************************************)
(* youtube-restream, src/extractor.py: the HLS segment downloader.         *)
(*                                                                         *)
(* One run of main() walks the channel list; for every channel it resolves *)
(* the manifest, picks the media playlist, downloads segments into         *)
(* segments/<channel_id>/, prunes, writes playlist.m3u8, and at the end    *)
(* writes youtube.m3u.  The files on disk outlive a run; the scheduler     *)
(* starts the next run on the same disk.                                   *)
(*                                                                         *)
(* The environment (yt-dlp, the HTTP server, the texts it serves) is drawn *)
(* with \E at the step that asks for it.  A playlist's length is drawn     *)
(* when the playlist is fetched and each of its lines when the loop reads  *)
(* it.  The payload served for the u-th segment URI of a playlist during   *)
(* run r is <<r, u>>.  Durations are integers in units of 0.0001 s.        *)
(***************************************************************************)
EXTENDS Integers, Sequences, FiniteSets, TLC

\* ------------------------------------------------------------- bounds
MaxLines == 3        \* lines of a fetched media playlist
MaxRuns == 1         \* runs of main() on the same disk (see Runs)
MaxWindow == 2       \* retention windows 1..MaxWindow are tried
LongLines == 12      \* lines of a media playlist in SpecLong
MaxManifestLines == 4   \* lines of a master manifest in SpecSelect
MaxFiles == 4        \* segment files seg_0000 .. of a directory in SpecPrune
MaxKeep == 3         \* keep = 0..MaxKeep in SpecPrune
MaxSegs == 3         \* segments of a list in SpecRoundTrip

\* ---------------------------------------------------- program constants
MAX_SEGMENTS == 10           \* extractor.py:23
DEFAULT_DURATION == 20000    \* extractor.py:154, 2.0 s

\* The retention windows N of a run: the source fixes N = MAX_SEGMENTS,
\* which every channel list is run with; the claims speak of any N >= 1, so
\* the lists of one channel are run with the windows 1..MaxWindow as well.
Windows(cl) == {MAX_SEGMENTS} \cup (IF Len(cl) = 1 THEN 1..MaxWindow ELSE {})

NoDuration == -1             \* segment_info == {}: no "duration" key
\* A playlist.m3u8 on disk is [mtime, lines]: the run that wrote it and its
\* lines.  youtube.m3u is the sequence of its lines.
NoPlaylist == [mtime |-> 0, lines |-> <<>>]    \* no playlist.m3u8
NoMaster == <<>>                                \* no youtube.m3u
\* A URL is [base, path]: path is the line it was read from, base is <<>>
\* for an absolute URL and <<u>> for one resolved against the directory of u.
NoUrl == [base |-> <<>>, path |-> <<"none">>]    \* Python's None for a URL

\* ------------------------------------------------------------- inputs
\* channels.json: records always carry name and url; "id" may be absent
\* (main derives one, line 282).
ChA == [name |-> "A", url |-> "https://youtube.com/@a", id |-> "a"]
ChB == [name |-> "B", url |-> "https://youtube.com/@b", id |-> "b"]
ChNoId == [name |-> "C", url |-> "https://youtube.com/@c"]
ChannelLists == { <<>>, <<ChB>>, <<ChA, ChNoId>> }

\* How far a configuration is followed: a list of several channels for
\* MaxRuns runs, a shorter one for two runs more.
Runs(cl) == IF Len(cl) > 1 THEN MaxRuns ELSE MaxRuns + 2

\* "#EXTINF:<text>" lines: the texts a playlist may carry after the colon.
\*   num   : "5.0056,"  matches [\d.]+ and float() accepts it
\*   bad   : "1.2.3,"   matches [\d.]+ and float() raises ValueError
\*   nomatch: "abc"     does not match [\d.]+
ExtinfTexts == { <<"num", 50056>>, <<"bad", 0>>, <<"nomatch", 0>> }

\* dict.get(key, default)
Get(d, key, default) == IF key \in DOMAIN d THEN d[key] ELSE default

\* f"channel_{i}"
ChannelN(n) == CASE n = 1 -> "channel_1" [] n = 2 -> "channel_2"
                 [] n = 3 -> "channel_3" [] OTHER -> "channel_n"

\* channel_id = channel.get("id", f"channel_{i}")
ChannelId(channel, n) == Get(channel, "id", ChannelN(n))

\* Every directory segments/<d> a run can touch.
Dirs == UNION { { ChannelId(cl[k], k) : k \in DOMAIN cl } : cl \in ChannelLists }

VARIABLES
  channels,      \* the loaded channel list (channels.json), fixed
  window,        \* the retention window N (MAX_SEGMENTS in the source)
  run,           \* number of the current run of main()
  pc,            \* position of main()
  i,             \* enumerate(channels, 1) index of the current channel
  results,       \* main's results list
  exit_code,     \* main's return value, -1 while running
  manifest_url,  \* main's manifest_url
  playlist_url,  \* main's playlist_url
  linesLeft,     \* lines of the media playlist not yet read by the loop
  uriIdx,        \* segment URI lines read so far in this playlist
  segments,      \* download_segments' segments list
  segment_info,  \* download_segments' segment_info dict
  tagged,        \* history: a parsable #EXTINF was read since the last URI line
  fetched,       \* history: URI ordinals fetched successfully this cycle
  files,         \* disk: files[d][k] = content of segments/d/seg_{k:04d}.ts
  playlists,     \* disk: playlists[d] = content of segments/d/playlist.m3u8
  master,        \* disk: content of youtube.m3u
  before,        \* history: <<files, playlists>> when the current cycle began
  args,          \* a function called on its own: its arguments
  ret            \* a function called on its own: what its calls returned

vars == << channels, window, run, pc, i, results, exit_code, manifest_url,
           playlist_url, linesLeft, uriIdx, segments, segment_info, tagged,
           fetched, files, playlists, master, before, args, ret >>

main_vars == << channels, window, run, pc, i, results, exit_code, manifest_url,
                playlist_url, linesLeft, uriIdx, segments, segment_info,
                tagged, fetched, files, playlists, master, before >>

locals == << manifest_url, playlist_url, linesLeft, uriIdx, segments,
             segment_info, tagged, fetched >>

\* No function is being called on its own while main() runs.
call == << args, ret >>
NoCall == <<>>

disk == << files, playlists, master >>

EmptyDir == [k \in {} |-> 0]

\* main() about to start, its locals not yet bound.
InitControl ==
  /\ run = 1
  /\ pc = "start"
  /\ i = 0
  /\ results = <<>>
  /\ exit_code = -1
  /\ manifest_url = NoUrl
  /\ playlist_url = NoUrl
  /\ linesLeft = 0
  /\ uriIdx = 0
  /\ segments = <<>>
  /\ segment_info = NoDuration
  /\ tagged = FALSE
  /\ fetched = <<>>

\* Nothing on disk.
EmptyDisk ==
  /\ files = [d \in Dirs |-> EmptyDir]
  /\ playlists = [d \in Dirs |-> NoPlaylist]
  /\ master = NoMaster
  /\ before = << [d \in Dirs |-> EmptyDir], [d \in Dirs |-> NoPlaylist] >>

\* The state before the first run: nothing on disk.
InitMain ==
  /\ InitControl
  /\ EmptyDisk

Init ==
  /\ channels \in ChannelLists
  /\ window \in Windows(channels)
  /\ InitMain
  /\ args = NoCall
  /\ ret = NoCall

channel == channels[i]

\* One directory for all channels: that of the first.
first_channel_id == ChannelId(channels[1], 1)

\* line 282
channel_id == ChannelId(channel, i)

\* {**channel, "success": False}
FailedResult(ch) == ("success" :> FALSE) @@ ch
\* {**channel, "success": True, "segments": len(segments)}
SuccessResult(ch, segs) == ("success" :> TRUE) @@ ("segments" :> Len(segs)) @@ ch

\* The for loop of main (line 281) moving on: the next channel, or the
\* statements after the loop.  Every local of the finished iteration is dead.
\* (f, p) is the disk the next cycle starts on.
NextChannel(f, p) ==
  /\ IF i < Len(channels)
       THEN /\ i' = i + 1
            /\ pc' = "resolve"
            /\ before' = << f, p >>
       ELSE /\ i' = i
            /\ pc' = "master"
            /\ before' = before
  /\ manifest_url' = NoUrl
  /\ playlist_url' = NoUrl
  /\ linesLeft' = 0
  /\ uriIdx' = 0
  /\ segments' = <<>>
  /\ segment_info' = NoDuration
  /\ tagged' = FALSE
  /\ fetched' = <<>>

\* results.append({**channel, "success": False}); continue
FailChannel ==
  /\ results' = Append(results, FailedResult(channel))
  /\ UNCHANGED << files, playlists >>
  /\ NextChannel(files, playlists)

\* main, lines 253-259: yt-dlp cannot be run.
StartNoYtDlp ==
  /\ pc = "start"
  /\ pc' = "no_ytdlp"
  /\ exit_code' = 1
  /\ UNCHANGED << call, channels, window, run, i, results, locals, disk, before >>

\* main, lines 261-271: load_channels() gave an empty list.
StartNoChannels ==
  /\ pc = "start"
  /\ channels = <<>>
  /\ pc' = "no_channels"
  /\ exit_code' = 1
  /\ UNCHANGED << call, channels, window, run, i, results, locals, disk, before >>

\* main, lines 261-281: the loop is entered with the first channel.
StartLoop ==
  /\ pc = "start"
  /\ channels # <<>>
  /\ pc' = "resolve"
  /\ i' = 1
  /\ results' = <<>>
  /\ before' = << files, playlists >>
  /\ UNCHANGED << call, channels, window, run, exit_code, locals, disk >>

\* main, lines 287-291: get_manifest_url returned None.
ResolveFail ==
  /\ pc = "resolve"
  /\ FailChannel
  /\ UNCHANGED << call, channels, window, run, exit_code, master >>

\* main, lines 287-293: get_manifest_url returned a manifest URL.
ResolveOk ==
  /\ pc = "resolve"
  /\ manifest_url' = [base |-> <<>>,
                      path |-> <<"url", "abs", "manifest", channel.name>>]
  /\ pc' = "manifest"
  /\ UNCHANGED << call, channels, window, run, i, results, exit_code, playlist_url,
                  linesLeft, uriIdx, segments, segment_info, tagged, fetched,
                  disk, before >>

\* ------------------------------------------------ master manifest
\* A manifest text is the sequence of its lines; a line is
\*   <<"inf", bw>>        "#EXT-X-STREAM-INF:...", bw = -1: no BANDWIDTH=<digits>
\*   <<"url", "abs", u>>  a line starting with "http"
\*   <<"url", "rel", u>>  any other non-blank line that is no tag
\*   <<"tag">>            another line starting with "#"
\*   <<"blank">>          an empty line
\* The text "" is <<>>.
IsBlank(line) == line = <<"blank">>

RECURSIVE LStrip(_)
LStrip(ls) == IF ls # <<>> /\ IsBlank(Head(ls)) THEN LStrip(Tail(ls)) ELSE ls

RECURSIVE RStrip(_)
RStrip(ls) ==
  IF ls # <<>> /\ IsBlank(ls[Len(ls)]) THEN RStrip(SubSeq(ls, 1, Len(ls) - 1))
  ELSE ls

\* text.strip().split("\n")
StripSplit(text) ==
  LET s == RStrip(LStrip(text)) IN IF s = <<>> THEN << <<"blank">> >> ELSE s

\* base_url = url.rsplit("/", 1)[0]; f"{base_url}/{line}"
Resolve(base, line) ==
  IF line[1] = "url" /\ line[2] = "abs"
    THEN [base |-> <<>>, path |-> line]
    ELSE [base |-> <<base>>, path |-> line]

\* bandwidth = int(bw_match.group(1)) if bw_match else 0
Bandwidth(line) == IF line[2] < 0 THEN 0 ELSE line[2]

\* lines 81-94: the (bandwidth, playlist_url) pairs in playlist order
RECURSIVE Variants(_, _, _)
Variants(lines, k, base) ==
  IF k > Len(lines) THEN <<>>
  ELSE IF lines[k][1] = "inf" /\ k + 1 <= Len(lines)
    THEN << << Bandwidth(lines[k]), Resolve(base, lines[k + 1]) >> >>
           \o Variants(lines, k + 1, base)
    ELSE Variants(lines, k + 1, base)

\* A descending sort that puts the later of two equal bandwidths first.
RECURSIVE SortByBandwidthDescLast(_)
SortByBandwidthDescLast(ps) ==
  IF ps = <<>> THEN <<>>
  ELSE LET m == CHOOSE k \in DOMAIN ps :
                  /\ \A j \in DOMAIN ps : ps[j][1] <= ps[k][1]
                  /\ \A j \in (k + 1)..Len(ps) : ps[j][1] < ps[k][1]
       IN << ps[m] >> \o
          SortByBandwidthDescLast(SubSeq(ps, 1, m - 1) \o SubSeq(ps, m + 1, Len(ps)))

\* playlists.sort(key=lambda x: x[0], reverse=True): stable, so among equal
\* bandwidths the earlier pair stays first.
RECURSIVE SortByBandwidthDesc(_)
SortByBandwidthDesc(ps) ==
  IF ps = <<>> THEN <<>>
  ELSE LET m == CHOOSE k \in DOMAIN ps :
                  /\ \A j \in DOMAIN ps : ps[j][1] <= ps[k][1]
                  /\ \A j \in 1..(k - 1) : ps[j][1] < ps[k][1]
       IN << ps[m] >> \o
          SortByBandwidthDesc(SubSeq(ps, 1, m - 1) \o SubSeq(ps, m + 1, Len(ps)))

\* get_best_quality_playlist(master_manifest, manifest_url)
get_best_quality_playlist(master_manifest, murl) ==
  LET ps == Variants(StripSplit(master_manifest), 1, murl)
  IN IF ps # <<>> THEN SortByBandwidthDesc(ps)[1][2] ELSE NoUrl

\* The manifests the server answers with in a run.
MediaOnly == << <<"tag">>, <<"url", "rel", "seg">> >>
TwoVariants == << <<"tag">>, <<"inf", 500000>>, <<"url", "abs", "lo">>,
                  <<"inf", 1200000>>, <<"url", "rel", "hi">> >>
MasterManifests == { MediaOnly, TwoVariants }

\* main, lines 296-300: download_manifest returned None (or an empty text).
ManifestFail ==
  /\ pc = "manifest"
  /\ FailChannel
  /\ UNCHANGED << call, channels, window, run, exit_code, master >>

\* main, lines 296-308: the manifest was downloaded; the best variant's
\* playlist, or the manifest itself when it lists no variant.
ManifestOk ==
  /\ pc = "manifest"
  /\ \E master_manifest \in MasterManifests :
       LET best == get_best_quality_playlist(master_manifest, manifest_url)
       IN playlist_url' = IF best = NoUrl THEN manifest_url ELSE best
  /\ pc' = "playlist"
  /\ UNCHANGED << call, channels, window, run, i, results, exit_code, manifest_url,
                  linesLeft, uriIdx, segments, segment_info, tagged, fetched,
                  disk, before >>

\* ------------------------------------------------ download_segments
\* f"seg_{n:04d}.ts": the file is named by its index n; for n < 10000 the
\* names sort as the indices do.
SegmentName(n) == n

\* A numbering that keeps the playlist position of the URI (u), so that a
\* failed fetch leaves a gap.
segment_name_by_position(segs, u) == SegmentName(u)

\* line 139: segment_name = f"seg_{len(segments):04d}.ts", for the u-th URI
segment_name(segs, u) == SegmentName(Len(segs))

\* The payload the server returns for the u-th URI of the playlist in run r.
Payload(r, u) == << r, u >>

\* with open(segment_path, "wb") as f: f.write(content)  -- creates or
\* overwrites the file
WriteFile(dir, name, content) == (name :> content) @@ dir

\* download_segments returning (channel_dir, segs) to main, lines 311-317.
\* f is the disk's files, got the history of fetched URIs, left and u the
\* loop's position at the return.
ReturnSegments(segs, f, got, left, u) ==
  IF segs = <<>>
    THEN /\ results' = Append(results, FailedResult(channel))
         /\ NextChannel(f, playlists)
    ELSE /\ pc' = "cleanup"
         /\ segments' = segs
         /\ fetched' = got
         /\ segment_info' = NoDuration
         /\ tagged' = FALSE
         /\ linesLeft' = left
         /\ uriIdx' = u
         /\ UNCHANGED << i, results, manifest_url, playlist_url, before >>

\* download_segments, lines 106-112: the playlist fetch failed: (None, []).
PlaylistFail ==
  /\ pc = "playlist"
  /\ FailChannel
  /\ UNCHANGED << call, channels, window, run, exit_code, master >>

\* download_segments, lines 106-120: the playlist text arrived; it has n
\* lines, at most m, after strip().split("\n").  (mkdir at line 116 makes
\* the directory if it is not there: files[d] is empty until a file is
\* written.)
PlaylistOkUpTo(m) ==
  /\ pc = "playlist"
  /\ \E n \in 1..m : linesLeft' = n
  /\ uriIdx' = 0
  /\ segments' = <<>>
  /\ segment_info' = NoDuration
  /\ tagged' = FALSE
  /\ fetched' = <<>>
  /\ pc' = "lines"
  /\ UNCHANGED << call, channels, window, run, i, results, exit_code, manifest_url,
                  playlist_url, disk, before >>

PlaylistOk == PlaylistOkUpTo(MaxLines)

\* lines 124-128: a "#EXTINF" line whose number float() accepts, or that
\* does not match the pattern at all.
ExtinfLine ==
  /\ pc = "lines"
  /\ linesLeft > 0
  /\ \E t \in ExtinfTexts :
       /\ t[1] # "bad"
       /\ segment_info' = IF t[1] = "num" THEN t[2] ELSE segment_info
       /\ tagged' = (t[1] = "num" \/ tagged)
  /\ linesLeft' = linesLeft - 1
  /\ UNCHANGED << call, channels, window, run, pc, i, results, exit_code,
                  manifest_url, playlist_url, uriIdx, segments, fetched, disk,
                  before >>

\* line 128: float(match.group(1)) raises ValueError; nothing in
\* download_segments or main catches it: the process dies with a traceback.
ExtinfRaises ==
  /\ pc = "lines"
  /\ linesLeft > 0
  /\ <<"bad", 0>> \in ExtinfTexts
  /\ pc' = "crashed"
  /\ exit_code' = 1
  /\ UNCHANGED << call, channels, window, run, i, results, locals, disk, before >>

\* lines 129-130: another tag, or a blank line.
SkipLine ==
  /\ pc = "lines"
  /\ linesLeft > 0
  /\ linesLeft' = linesLeft - 1
  /\ UNCHANGED << call, channels, window, run, pc, i, results, exit_code,
                  manifest_url, playlist_url, uriIdx, segments, segment_info,
                  tagged, fetched, disk, before >>

\* The limit tested after the list has grown past it.
LimitReachedLate(segs) == Len(segs) > window

\* lines 161-162: if len(segments) >= MAX_SEGMENTS: break
LimitReached(segs) == Len(segs) >= window

\* lines 132-162: a segment URI whose fetch succeeds.
UriLineOk ==
  /\ pc = "lines"
  /\ linesLeft > 0
  /\ LET name == segment_name(segments, uriIdx)
         segs == Append(segments,
                   [filename |-> name,
                    duration |-> IF segment_info = NoDuration
                                   THEN DEFAULT_DURATION ELSE segment_info])
     IN /\ files' = [files EXCEPT ![channel_id] =
                       WriteFile(@, name, Payload(run, uriIdx))]
        /\ IF LimitReached(segs)
             THEN /\ ReturnSegments(segs, files', Append(fetched, uriIdx),
                                    linesLeft - 1, uriIdx + 1)
                  /\ UNCHANGED << call, channels, window, run, exit_code,
                                  playlists, master >>
             ELSE /\ segments' = segs
                  /\ fetched' = Append(fetched, uriIdx)
                  /\ segment_info' = NoDuration
                  /\ tagged' = FALSE
                  /\ linesLeft' = linesLeft - 1
                  /\ uriIdx' = uriIdx + 1
                  /\ UNCHANGED << call, channels, window, run, pc, i, results,
                                  exit_code, manifest_url, playlist_url,
                                  playlists, master, before >>

\* lines 132-146, 164-166: a segment URI whose fetch fails; the loop goes on
\* with the next line, segment_info as it is.
UriLineFail ==
  /\ pc = "lines"
  /\ linesLeft > 0
  /\ linesLeft' = linesLeft - 1
  /\ uriIdx' = uriIdx + 1
  /\ tagged' = FALSE
  /\ UNCHANGED << call, channels, window, run, pc, i, results, exit_code,
                  manifest_url, playlist_url, segments, segment_info, fetched,
                  disk, before >>

\* line 168: the loop ran off the end of the playlist.
PlaylistEnd ==
  /\ pc = "lines"
  /\ linesLeft = 0
  /\ ReturnSegments(segments, files, fetched, linesLeft, uriIdx)
  /\ UNCHANGED << call, channels, window, run, exit_code, disk >>

\* ------------------------------------------------ cleanup_old_segments
\* sorted(channel_dir.glob("seg_*.ts"))
RECURSIVE Sorted(_)
Sorted(S) ==
  IF S = {} THEN <<>>
  ELSE LET m == CHOOSE x \in S : \A y \in S : x <= y
       IN << m >> \o Sorted(S \ {m})

\* Python's seq[:-k] for k >= 0; seq[:-0] is seq[:0], the empty list.
ButLast(seq, k) ==
  IF k = 0 \/ k >= Len(seq) THEN <<>> ELSE SubSeq(seq, 1, Len(seq) - k)

\* A pruning that is off by one: "if len(segments) >= keep" and
\* "segments[:-(keep - 1)]", so that keep - 1 files are left.
cleanup_keeps_one_less(dir, keep) ==
  LET segs == Sorted(DOMAIN dir)
      gone == IF Len(segs) >= keep
                THEN { segs[k] : k \in DOMAIN ButLast(segs, keep - 1) }
                ELSE {}
  IN [n \in (DOMAIN dir) \ gone |-> dir[n]]

\* A pruning that deletes the oldest keep files, "segments[:keep]", when
\* there are more than keep.
cleanup_first_keep(dir, keep) ==
  LET segs == Sorted(DOMAIN dir)
      gone == IF Len(segs) > keep THEN { segs[k] : k \in 1..keep } ELSE {}
  IN [n \in (DOMAIN dir) \ gone |-> dir[n]]

\* cleanup_old_segments(channel_dir, keep) on the segment files dir of an
\* existing directory: the files left.
cleanup_old_segments(dir, keep) ==
  LET segs == Sorted(DOMAIN dir)
      gone == IF Len(segs) > keep
                THEN { segs[k] : k \in DOMAIN ButLast(segs, keep) }
                ELSE {}
  IN [n \in (DOMAIN dir) \ gone |-> dir[n]]

\* main, lines 319-320
Cleanup ==
  /\ pc = "cleanup"
  /\ files' = [files EXCEPT ![channel_id] = cleanup_old_segments(@, window)]
  /\ pc' = "emit"
  /\ UNCHANGED << call, channels, window, run, i, results, exit_code, locals,
                  playlists, master, before >>

\* ------------------------------------------------ generate_local_m3u8
\* float() of a digit string too long for a double is inf, and f"{inf:.3f}"
\* is the text "inf".
Infinity == 2000000000
InfText == -1

\* The double nearest to d / 10000 is m / 2^e with m in [2^52, 2^53): k is
\* the binary exponent of d / 10000, 10000 * 2^k <= d < 10000 * 2^(k+1).
RECURSIVE ExponentUp(_, _)
ExponentUp(p, d) == IF 2 * p <= d THEN 1 + ExponentUp(2 * p, d) ELSE 0
RECURSIVE ExponentDown(_)
ExponentDown(x) == IF x < 10000 THEN ExponentDown(2 * x) - 1 ELSE 0
BinaryExponent(d) ==
  IF d >= 10000 THEN ExponentUp(10000, d) ELSE ExponentDown(d)

RECURSIVE Pow2Mod(_)
Pow2Mod(e) == IF e = 0 THEN 1 ELSE (2 * Pow2Mod(e - 1)) % 10000

\* (d * 2^e) mod 10000, e = 52 - k: what is left of d * 2^e / 10000 after
\* its integer part.  0: the double is d / 10000 exactly; below 5000: the
\* double is the next one below d / 10000; above 5000: the next one above.
DoubleResidue(d) ==
  ((d % 10000) * Pow2Mod(52 - BinaryExponent(d))) % 10000

\* f"{d:.3f}": a duration in 0.0001 s to the nearest 0.001 s.  The double
\* is formatted, not the decimal it was read from: a duration halfway
\* between two thousandths goes to the side its double lies on, and to the
\* even thousandth when the double is the halfway point itself.
Format3(d) ==
  IF d = Infinity THEN InfText
  ELSE IF d % 10 # 5 THEN (d + 5) \div 10
  ELSE LET q == d \div 10
           r == DoubleResidue(d)
       IN IF r = 0 THEN (IF q % 2 = 0 THEN q ELSE q + 1)
          ELSE IF r < 5000 THEN q
          ELSE q + 1

\* lines 186-188
RECURSIVE SegmentLines(_, _)
SegmentLines(cid, segs) ==
  IF segs = <<>> THEN <<>>
  ELSE << <<"#EXTINF", Format3(Head(segs).duration)>>,
          <<"uri", cid, Head(segs).filename>> >>
         \o SegmentLines(cid, Tail(segs))

\* The text generate_local_m3u8 writes, as its lines.
LocalPlaylist(cid, segs) ==
  << <<"#EXTM3U">>, <<"#EXT-X-VERSION", 3>>, <<"#EXT-X-TARGETDURATION", 10>>,
     <<"#EXT-X-MEDIA-SEQUENCE", 0>>, <<"blank">> >>
    \o SegmentLines(cid, segs)

\* generate_local_m3u8(channel_id, segments) at time now: the playlist
\* files afterwards.  Nothing is written for an empty list (lines 173-174).
generate_local_m3u8(pls, cid, segs, now) ==
  IF segs = <<>> THEN pls
  ELSE [pls EXCEPT ![cid] = [mtime |-> now, lines |-> LocalPlaylist(cid, segs)]]

\* main, lines 322-326: generate_local_m3u8(channel_id, segments), then the
\* success record.
Emit ==
  /\ pc = "emit"
  /\ playlists' = generate_local_m3u8(playlists, channel_id, segments, run)
  /\ results' = Append(results, SuccessResult(channel, segments))
  /\ NextChannel(files, playlists')
  /\ UNCHANGED << call, channels, window, run, exit_code, files, master >>

\* ------------------------------------------------ generate_master_m3u
\* An entry for every channel, whatever its "success".
RECURSIVE ChannelLinesAll(_)
ChannelLinesAll(data) ==
  IF data = <<>> THEN <<>>
  ELSE LET ch == Head(data)
           tvg_id == Get(ch, "id", "")
       IN << <<"#EXTINF", Get(ch, "group", "YouTube"),
               Get(ch, "logo", ""), tvg_id, Get(ch, "name", "Unknown")>>,
             <<"uri", tvg_id, "playlist.m3u8">>,
             <<"blank">> >>
          \o ChannelLinesAll(Tail(data))

\* lines 209-221: the lines of the channels with "success"
RECURSIVE ChannelLines(_)
ChannelLines(data) ==
  IF data = <<>> THEN <<>>
  ELSE LET ch == Head(data)
           tvg_id == Get(ch, "id", "")
       IN (IF Get(ch, "success", FALSE)
             THEN << <<"#EXTINF", Get(ch, "group", "YouTube"),
                       Get(ch, "logo", ""), tvg_id, Get(ch, "name", "Unknown")>>,
                     <<"uri", tvg_id, "playlist.m3u8">>,
                     <<"blank">> >>
             ELSE <<>>)
          \o ChannelLines(Tail(data))

\* The text generate_master_m3u writes at time now, as its lines.
MasterPlaylist(data, now) ==
  << <<"#EXTM3U">>, <<"blank">>, <<"# YouTube Live Restream">>,
     <<"# Last updated", now>>, <<"blank">> >>
    \o ChannelLines(data)

\* main, lines 328-330
GenerateMaster ==
  /\ pc = "master"
  /\ master' = MasterPlaylist(results, run)
  /\ pc' = "summary"
  /\ UNCHANGED << call, channels, window, run, i, results, exit_code, locals,
                  files, playlists, before >>

\* main, lines 332-343
Summary ==
  /\ pc = "summary"
  /\ LET success_count ==
           Cardinality({ k \in DOMAIN results : Get(results[k], "success", FALSE) })
     IN exit_code' = IF success_count > 0 THEN 0 ELSE 1
  /\ pc' = "exited"
  /\ UNCHANGED << call, channels, window, run, i, results, locals, disk, before >>

\* The process has ended (returned or died); the scheduler starts main()
\* again on the same disk.
RunOver == pc \in {"no_ytdlp", "no_channels", "exited", "crashed"}

NewRun ==
  /\ RunOver
  /\ run < Runs(channels)
  /\ run' = run + 1
  /\ pc' = "start"
  /\ i' = 0
  /\ results' = <<>>
  /\ exit_code' = -1
  /\ manifest_url' = NoUrl
  /\ playlist_url' = NoUrl
  /\ linesLeft' = 0
  /\ uriIdx' = 0
  /\ segments' = <<>>
  /\ segment_info' = NoDuration
  /\ tagged' = FALSE
  /\ fetched' = <<>>
  /\ before' = << files, playlists >>
  /\ UNCHANGED << call, channels, window, disk >>

\* ------------------------------------------------ functions on their own
\* A function of the source called on arguments of its own choosing, main()
\* not running: args holds the arguments, ret the values of its successive
\* calls.
\* The module loaded, no function running: the window is the source's.
Loaded ==
  /\ channels = <<>>
  /\ window = MAX_SEGMENTS
  /\ InitControl

Idle ==
  /\ Loaded
  /\ EmptyDisk

\* The lines a master manifest is made of.
ManifestBandwidths == { -1, 0, 500000, 1200000 }
ManifestLineKinds ==
  { <<"inf", bw>> : bw \in ManifestBandwidths }
    \cup { <<"url", "abs", "lo">>, <<"url", "rel", "hi">>, <<"tag">>, <<"blank">> }

\* Every text of up to n lines.
ManifestTexts(n) == UNION { [1..m -> ManifestLineKinds] : m \in 0..n }

AManifestUrl == [base |-> <<>>, path |-> <<"url", "abs", "manifest", "A">>]

InitSelect ==
  /\ Idle
  /\ args \in [master_manifest : ManifestTexts(MaxManifestLines),
               manifest_url : {AManifestUrl}]
  /\ ret = <<>>

\* playlist_url = get_best_quality_playlist(master_manifest, manifest_url)
CallSelect ==
  /\ "master_manifest" \in DOMAIN args
  /\ ret = <<>>
  /\ ret' = << get_best_quality_playlist(args.master_manifest, args.manifest_url) >>
  /\ UNCHANGED << args, main_vars >>

NextSelect == CallSelect

SpecSelect == InitSelect /\ [][NextSelect]_vars

\* The segment files of a directory: any of seg_0000 .. seg_(n-1), each
\* with some content.
Directories(n) ==
  UNION { [S -> { Payload(1, 0) }] : S \in SUBSET { SegmentName(k) : k \in 0..(n - 1) } }

InitPrune ==
  /\ Idle
  /\ args \in [dir : Directories(MaxFiles), keep : 0..MaxKeep]
  /\ ret = <<>>

\* cleanup_old_segments(channel_dir, keep), and once more on what it left.
CallPrune ==
  /\ "keep" \in DOMAIN args
  /\ Len(ret) < 2
  /\ ret' = Append(ret, cleanup_old_segments(
                          IF ret = <<>> THEN args.dir ELSE ret[Len(ret)],
                          args.keep))
  /\ UNCHANGED << args, main_vars >>

NextPrune == CallPrune

SpecPrune == InitPrune /\ [][NextPrune]_vars

\* The media-playlist parser, lines 118-162 of download_segments, on a text
\* given as its lines, every segment fetch succeeding: the (duration, URL)
\* of the entries it takes, at most limit of them.
\* line.startswith("#EXTINF")
StartsWithExtinf(line) == line[1] = "#EXTINF"
\* line.startswith("#") or not line
StartsWithHashOrEmpty(line) ==
  line[1] \in { "#EXTM3U", "#EXT-X-VERSION", "#EXT-X-TARGETDURATION",
                "#EXT-X-MEDIA-SEQUENCE", "#EXT-X-ENDLIST", "tag", "blank" }
\* re.search(r"#EXTINF:([\d.]+)", line) on "#EXTINF:<text>,"
MatchesNumber(text) == text # InfText
\* float("s.mmm") of a number written with three decimals, in 0.0001 s
ParseFloat3(thousandths) == thousandths * 10

RECURSIVE ParseEntries(_, _, _, _, _)
ParseEntries(lines, k, info, acc, limit) ==
  IF k > Len(lines) THEN acc
  ELSE IF StartsWithExtinf(lines[k])
    THEN ParseEntries(lines, k + 1,
                      IF MatchesNumber(lines[k][2]) THEN ParseFloat3(lines[k][2])
                      ELSE info,
                      acc, limit)
  ELSE IF StartsWithHashOrEmpty(lines[k])
    THEN ParseEntries(lines, k + 1, info, acc, limit)
  ELSE LET got == Append(acc, [duration |-> IF info = NoDuration
                                              THEN DEFAULT_DURATION ELSE info,
                               url |-> lines[k]])
       IN IF Len(got) >= limit THEN got
          ELSE ParseEntries(lines, k + 1, NoDuration, got, limit)

\* The durations a segment list may carry (0.0045 and 5.0055 lie halfway
\* between two thousandths, 0.0625 does and is a double) and the lists
\* download_segments can return: seg_0000 ..
SegmentDurations ==
  { 0, 45, 625, DEFAULT_DURATION, 50055, 50056, 99996, Infinity }
SegmentLists(n) ==
  UNION { { [k \in 1..m |-> [filename |-> SegmentName(k - 1), duration |-> ds[k]]] :
              ds \in [1..m -> SegmentDurations] } : m \in 1..n }

\* The files the parser's loop writes for the entries it takes, every fetch
\* succeeding (lines 139-149): the k-th entry, the k-th URI of the text, goes
\* to seg_{k-1:04d}.ts, made or overwritten, with the payload of fetch r.
RECURSIVE WriteEntries(_, _, _)
WriteEntries(dir, k, r) ==
  IF k = 0 THEN dir
  ELSE WriteFile(WriteEntries(dir, k - 1, r), SegmentName(k - 1),
                 Payload(r, k - 1))

\* download_segments has returned the segment list: it has made the
\* directory segments/<channel_id>/ (line 116) and written the files of the
\* list there; no playlist.m3u8 yet.
InitRoundTrip ==
  /\ Loaded
  /\ args \in [channel_id : {"a", ChannelN(2)}, segments : SegmentLists(MaxSegs)]
  /\ ret = <<>>
  /\ files = [d \in Dirs |->
                IF d = args.channel_id
                  THEN WriteEntries(EmptyDir, Len(args.segments), run)
                  ELSE EmptyDir]
  /\ playlists = [d \in Dirs |-> NoPlaylist]
  /\ master = NoMaster
  /\ before = << files, playlists >>

\* generate_local_m3u8(channel_id, segments) with segments/<channel_id>/ in
\* place (the function makes no directory: the open at line 194 needs the
\* one the segments are in, which a directory holding files is):
\* playlist.m3u8 is written; ret takes the lines of its text.
CallEmit ==
  /\ "segments" \in DOMAIN args
  /\ ret = <<>>
  /\ files[args.channel_id] # EmptyDir
  /\ playlists' = generate_local_m3u8(playlists, args.channel_id,
                                      args.segments, run)
  /\ ret' = << playlists'[args.channel_id].lines >>
  /\ UNCHANGED << args, channels, window, run, pc, i, results, exit_code,
                  locals, files, master, before >>

\* download_segments(url serving that text, channel_id), every fetch
\* succeeding: the entries returned, their files overwritten with what this
\* later fetch brought.
CallParse ==
  /\ "segments" \in DOMAIN args
  /\ Len(ret) = 1
  /\ LET got == ParseEntries(StripSplit(ret[1]), 1, NoDuration, <<>>, window)
     IN /\ ret' = Append(ret, got)
        /\ files' = [files EXCEPT ![args.channel_id] =
                       WriteEntries(@, Len(got), run + 1)]
  /\ UNCHANGED << args, channels, window, run, pc, i, results, exit_code,
                  locals, playlists, master, before >>

NextRoundTrip ==
  \/ CallEmit
  \/ CallParse

SpecRoundTrip == InitRoundTrip /\ [][NextRoundTrip]_vars

\* ------------------------------------------------ the claims
\* The directory of the k-th channel of the list.
Dir(k) == ChannelId(channels[k], k)

\* The segment files a playlist.m3u8 names.
Listed(pl) == { pl.lines[j][3] : j \in { m \in DOMAIN pl.lines : pl.lines[m][1] = "uri" } }

\* The k-th channel's local playlist was emitted in this run.
Succeeded(k) == playlists[Dir(k)].mtime = run

IsEntry(line) == line[1] = "#EXTINF"
IsUri(line) == line[1] = "uri"

\* The field f of the lines of youtube.m3u that satisfy the test, in order.
EntryNames(m) == LET e == SelectSeq(m, IsEntry) IN [j \in DOMAIN e |-> e[j][5]]
EntryNamespaces(m) == LET u == SelectSeq(m, IsUri) IN [j \in DOMAIN u |-> u[j][2]]

RECURSIVE SucceededFrom(_)
SucceededFrom(k) ==
  IF k > Len(channels) THEN <<>>
  ELSE (IF Succeeded(k) THEN << k >> ELSE <<>>) \o SucceededFrom(k + 1)

\* C1: in download_segments the returned list is seg_0000, seg_0001, ... in
\* order with no gaps, whatever fetches fail: the k-th entry is named by
\* k - 1 and the file of that name holds the payload of the k-th URI, in
\* playlist order, whose fetch succeeded in this cycle.
C1_ContiguousNumbering ==
  pc \in {"lines", "cleanup", "emit"} =>
    /\ Len(segments) = Len(fetched)
    /\ \A k \in DOMAIN segments :
         /\ segments[k].filename = SegmentName(k - 1)
         /\ SegmentName(k - 1) \in DOMAIN files[channel_id]
         /\ files[channel_id][SegmentName(k - 1)] = Payload(run, fetched[k])
    /\ \A j, k \in DOMAIN fetched : j < k => fetched[j] < fetched[k]

\* download_segments has returned two segments, the second URI of three
\* having failed.
C1_Witness ==
  /\ pc = "cleanup"
  /\ Len(segments) = 2
  /\ fetched = << 0, 2 >>

\* The files of the current channel written in this cycle.
PersistedThisCycle ==
  { n \in DOMAIN files[channel_id] : files[channel_id][n][1] = run }

\* C2: a cycle persists at most N segments, and once N are persisted no
\* further segment fetch is attempted, whatever is left of the playlist.
C2_StopsAtWindow ==
  pc \in {"lines", "cleanup", "emit"} =>
    /\ Cardinality(PersistedThisCycle) <= window
    /\ Len(segments) <= window
    /\ (ENABLED UriLineOk \/ ENABLED UriLineFail) => Len(segments) < window

\* N = 10, an empty directory and a playlist of 12 URIs that all fetch:
\* seg_0000 .. seg_0009 are written and two lines are left unread.
C2_Witness ==
  /\ pc = "cleanup"
  /\ window = MAX_SEGMENTS
  /\ fetched = << 0, 1, 2, 3, 4, 5, 6, 7, 8, 9 >>
  /\ DOMAIN files[channel_id] = 0..9
  /\ linesLeft = 2

\* The step ends the cycle of the i-th channel: main moves to the next
\* channel or past the loop, or the process dies.
CycleEnds ==
  /\ pc \in {"resolve", "manifest", "playlist", "lines", "cleanup", "emit"}
  /\ (i' # i \/ pc' \in {"master", "crashed"})

FailedCycleStep ==
  /\ (pc' \in {"cleanup", "emit"} => fetched' # <<>>)
  /\ ((CycleEnds /\ fetched = <<>>) =>
        /\ Len(results') = Len(results) + 1
        /\ ~results'[Len(results')].success
        /\ files'[Dir(i)] = before[1][Dir(i)]
        /\ playlists'[Dir(i)] = before[2][Dir(i)])
  /\ ((Len(results') = Len(results) + 1 /\ fetched # <<>>) =>
        results'[Len(results')].success)

\* C3: a cycle in which no segment was fetched (the playlist fetch failed,
\* or no segment fetch succeeded) ends with the channel recorded as failed,
\* never reaches pruning or emission, and leaves the channel's segment files
\* and playlist.m3u8 as they were when the cycle began.
C3_FailedCycleUntouched ==
  [][ FailedCycleStep ]_vars

\* C4: once a channel's cycle has finished (done or failed), every segment
\* file its playlist.m3u8 names is in the directory and holds the payload
\* fetched in the cycle that wrote that playlist.
C4_ListedFilesCurrent ==
  \A k \in DOMAIN results :
    LET d == Dir(k)
        pl == playlists[d]
    IN \A n \in Listed(pl) :
         /\ n \in DOMAIN files[d]
         /\ files[d][n][1] = pl.mtime

\* C5 as claimed: after a successful cycle the segment files in the
\* directory are exactly those the playlist lists.
C5_DiskEqualsPlaylist ==
  \A k \in DOMAIN results :
    results[k].success => DOMAIN files[Dir(k)] = Listed(playlists[Dir(k)])

\* C5, amended: after a successful cycle that fetched c segments the
\* playlist lists exactly seg_0000 .. seg_(c-1), all of them in the
\* directory; any other segment file there has an index >= c and was written
\* by an earlier run.
C5_ListedSubsetOfDisk ==
  \A k \in DOMAIN results :
    results[k].success =>
      LET d == Dir(k)
          listed == Listed(playlists[d])
      IN /\ listed = { SegmentName(j) : j \in 0..(results[k].segments - 1) }
         /\ listed \subseteq DOMAIN files[d]
         /\ \A n \in (DOMAIN files[d]) \ listed :
              /\ n >= results[k].segments
              /\ files[d][n][1] < run

\* A successful cycle has ended with a segment file of an earlier run left
\* in the directory and not listed.
C5_Witness ==
  \E k \in DOMAIN results :
    /\ results[k].success
    /\ Listed(playlists[Dir(k)]) # {}
    /\ DOMAIN files[Dir(k)] # Listed(playlists[Dir(k)])

\* C6: no channel directory ever holds more than N segment files.
C6_AtMostWindowFiles ==
  \A d \in Dirs : Cardinality(DOMAIN files[d]) <= window

\* A later cycle is fetching into a directory that already holds N >= 2
\* files.
C6_Witness ==
  /\ run >= 2
  /\ pc = "lines"
  /\ window >= 2
  /\ fetched # <<>>
  /\ Cardinality(DOMAIN files[channel_id]) = window

\* C7: a run that entered the channel loop is never aborted: it ends by
\* returning from main with one result per channel, in list order.
C7_RunNeverAborted ==
  pc \in {"exited", "crashed"} =>
    /\ pc = "exited"
    /\ Len(results) = Len(channels)
    /\ \A k \in DOMAIN results : results[k].name = channels[k].name

\* C8: youtube.m3u as written by this run has one entry (an #EXTINF line and
\* a URL line) for each channel whose cycle succeeded in this run, in list
\* order, and none for any other channel.
C8_MasterListsSuccesses ==
  pc \in {"summary", "exited"} =>
    /\ EntryNames(master) =
         [j \in DOMAIN SucceededFrom(1) |-> channels[SucceededFrom(1)[j]].name]
    /\ Len(SelectSeq(master, IsUri)) = Len(SelectSeq(master, IsEntry))

\* A run has ended in which a channel failed whose playlist of an earlier
\* run is still on disk.
C8_Witness ==
  /\ pc = "exited"
  /\ run >= 2
  /\ \E k \in DOMAIN channels : ~Succeeded(k) /\ playlists[Dir(k)].mtime >= 1

\* C9: the URL of a successful channel's entry in youtube.m3u names the
\* directory its segments and playlist.m3u8 were written to in this run.
C9_MasterUrlIsLocalPlaylist ==
  pc \in {"summary", "exited"} =>
    EntryNamespaces(master) =
      [j \in DOMAIN SucceededFrom(1) |-> Dir(SucceededFrom(1)[j])]

\* C10: every run that entered the channel loop has written youtube.m3u by
\* the time it ends, whatever the outcomes of its channels; with no
\* successful channel the file holds the five header lines only.
C10_MasterWrittenEveryRun ==
  pc \in {"exited", "crashed"} =>
    /\ master # NoMaster
    /\ master[4] = <<"# Last updated", run>>
    /\ (SucceededFrom(1) = <<>> => Len(master) = 5)


\* C11: when a run has ended, its exit status is 0 if and only if the cycle
\* of at least one channel succeeded in this run.
C11_ExitStatus ==
  RunOver => (exit_code = 0 <=> SucceededFrom(1) # <<>>)

\* C12: a segment persisted with no parsable #EXTINF between the previous
\* URI line and its own is recorded with the default duration, 2.0 s.
C12_DefaultDuration ==
  [][ (Len(segments') = Len(segments) + 1 /\ ~tagged) =>
        segments'[Len(segments')].duration = DEFAULT_DURATION ]_vars

\* C13: no text of a media playlist makes download_segments raise; it
\* always returns to main.
C13_ParsingNeverRaises ==
  pc # "crashed"

\* The lines of the manifest as the selector splits them, and the positions
\* of the stream-info tags that have a line after them.
SelectLines == StripSplit(args.master_manifest)
SelectTags == { k \in 1..(Len(SelectLines) - 1) : SelectLines[k][1] = "inf" }
TagBandwidth(k) == IF SelectLines[k][2] = -1 THEN 0 ELSE SelectLines[k][2]

\* C14: get_best_quality_playlist returns the URL after the first of the
\* stream-info tags whose bandwidth (0 without a BANDWIDTH attribute) is the
\* greatest, and no variant when the manifest has none.
C14_BestIsFirstMaximum ==
  ("master_manifest" \in DOMAIN args /\ ret # <<>>) =>
    IF SelectTags = {} THEN ret[1] = NoUrl
    ELSE \E k \in SelectTags :
           /\ \A j \in SelectTags : TagBandwidth(j) <= TagBandwidth(k)
           /\ \A j \in SelectTags : j < k => TagBandwidth(j) < TagBandwidth(k)
           /\ ret[1] = Resolve(args.manifest_url, SelectLines[k + 1])

\* Two variants of the same, greatest bandwidth with different URLs, after a
\* variant without BANDWIDTH: the first of the two is returned.
C14_Witness ==
  /\ "master_manifest" \in DOMAIN args
  /\ args.master_manifest =
       << <<"inf", 1200000>>, <<"url", "abs", "lo">>,
          <<"inf", 1200000>>, <<"url", "rel", "hi">> >>
  /\ ret = << [base |-> <<>>, path |-> <<"url", "abs", "lo">>] >>

\* C15: the selector never returns a variant made from a stream-info tag
\* that no URL follows: what it returns is no variant, or the URL read from
\* a URL line.
C15_NoUrlNoVariant ==
  ("master_manifest" \in DOMAIN args /\ ret # <<>>) =>
    (ret[1] = NoUrl \/ ret[1].path[1] = "url")

\* The positions of main at which the i-th channel is being processed.
ChannelStages == {"resolve", "manifest", "playlist", "lines", "cleanup", "emit"}

IndependentStep ==
  pc \in ChannelStages =>
    /\ \A d \in Dirs \ {Dir(i)} :
         files'[d] = files[d] /\ playlists'[d] = playlists[d]
    /\ (Len(results') >= Len(results) =>
          SubSeq(results', 1, Len(results)) = results)
    /\ (Len(results') = Len(results) + 1 =>
          /\ results'[Len(results')].name = channels[i].name
          /\ results'[Len(results')].success = (fetched # <<>>))
    /\ ((pc = "manifest" /\ pc' # "playlist") =>
          /\ ~results'[Len(results')].success
          /\ files' = files
          /\ playlists' = playlists)

\* C16: a step of the processing of one channel leaves the segment files
\* and the playlist of every other channel as they are and the outcomes
\* already recorded untouched; the outcome it records is that of the
\* channel's own fetches; a channel whose manifest fetch fails is recorded
\* as failed with nothing written or pruned anywhere.
C16_ChannelsIndependent ==
  [][ IndependentStep ]_vars

\* The second channel of the list has failed with nothing in its directory
\* while the first, processed before it in this run, has its files and its
\* playlist.
C16_Witness ==
  /\ pc = "master"
  /\ Len(results) = 2
  /\ results[1].success
  /\ ~results[2].success
  /\ files[Dir(1)] # EmptyDir
  /\ playlists[Dir(1)].mtime = run
  /\ files[Dir(2)] = EmptyDir

\* C17: cleanup_old_segments run a second time on the files the first run
\* left, with the same keep, leaves the same files.
C17_PruneIdempotent ==
  ("keep" \in DOMAIN args /\ Len(ret) = 2) => ret[2] = ret[1]

\* The first run deleted files, the second has run.
C17_Witness ==
  /\ "keep" \in DOMAIN args
  /\ Len(ret) = 2
  /\ args.keep = 2
  /\ DOMAIN args.dir = { SegmentName(0), SegmentName(2), SegmentName(3) }
  /\ DOMAIN ret[1] = { SegmentName(2), SegmentName(3) }

\* The greatest n members of a set of file names.
RECURSIVE Greatest(_, _)
Greatest(S, n) ==
  IF n = 0 \/ S = {} THEN {}
  ELSE LET m == CHOOSE x \in S : \A y \in S : y <= x
       IN {m} \cup Greatest(S \ {m}, n - 1)

\* C18: after cleanup_old_segments(dir, keep), keep >= 0, the segment files
\* left are the min(|S|, keep) greatest names of the set S there was, with
\* their contents.
C18_KeepsLatest ==
  ("keep" \in DOMAIN args /\ ret # <<>>) =>
    /\ DOMAIN ret[1] = Greatest(DOMAIN args.dir, args.keep)
    /\ \A n \in DOMAIN ret[1] : ret[1][n] = args.dir[n]

\* C19: the text generate_local_m3u8 writes for a non-empty segment list,
\* read back by the media-playlist parser, gives one (duration, URI) pair
\* per segment, in order, with the segment's duration to three decimals and
\* the URL of its file; the text has no #EXT-X-ENDLIST line.
C19_RoundTrip ==
  ("segments" \in DOMAIN args /\ Len(ret) = 2) =>
    /\ Len(ret[2]) = Len(args.segments)
    /\ \A k \in DOMAIN args.segments :
         /\ Format3(ret[2][k].duration) = Format3(args.segments[k].duration)
         /\ ret[2][k].url = <<"uri", args.channel_id, args.segments[k].filename>>
    /\ \A j \in DOMAIN ret[1] : ret[1][j][1] # "#EXT-X-ENDLIST"

\* C20: with the window fixed and the disk empty at first, every segment
\* file has an index in 0..N-1 and the pruning main calls deletes nothing:
\* cleanup_old_segments returns the directory as it found it, so every file
\* the cycle has just written is there when the playlist is emitted.
C20_PruningDeletesNothing ==
  /\ \A d \in Dirs : DOMAIN files[d] \subseteq { SegmentName(k) : k \in 0..(window - 1) }
  /\ pc = "cleanup" =>
       cleanup_old_segments(files[channel_id], window) = files[channel_id]
  /\ pc = "emit" =>
       \A k \in DOMAIN segments :
         /\ segments[k].filename \in DOMAIN files[channel_id]
         /\ files[channel_id][segments[k].filename][1] = run

\* Pruning is about to run, in a later run, on a directory that holds N >= 2
\* files, some of an earlier run and some of this cycle.
C20_Witness ==
  /\ pc = "cleanup"
  /\ run >= 2
  /\ window >= 2
  /\ Cardinality(DOMAIN files[channel_id]) = window
  /\ \E n \in DOMAIN files[channel_id] : files[channel_id][n][1] < run
  /\ \E n \in DOMAIN files[channel_id] : files[channel_id][n][1] = run

Next ==
  \/ StartNoYtDlp
  \/ StartNoChannels
  \/ StartLoop
  \/ ResolveFail
  \/ ResolveOk
  \/ ManifestFail
  \/ ManifestOk
  \/ PlaylistFail
  \/ PlaylistOk
  \/ ExtinfLine
  \/ ExtinfRaises
  \/ SkipLine
  \/ UriLineOk
  \/ UriLineFail
  \/ PlaylistEnd
  \/ Cleanup
  \/ Emit
  \/ GenerateMaster
  \/ Summary
  \/ NewRun

Spec == Init /\ [][Next]_vars

\* One run over one channel whose media playlist has up to LongLines lines,
\* all of them segment URIs, each fetch succeeding or failing.
InitLong == Init /\ channels = << ChB >>

PlaylistLong == PlaylistOkUpTo(LongLines)

NextLong ==
  \/ StartLoop
  \/ ResolveOk
  \/ ManifestOk
  \/ PlaylistLong
  \/ UriLineOk
  \/ UriLineFail
  \/ PlaylistEnd
  \/ Cleanup
  \/ Emit
  \/ GenerateMaster
  \/ Summary

SpecLong == InitLong /\ [][NextLong]_vars
=============================================================================
